---- MODULE Spec2Model ----
(***************************************************************************)
(* The in-memory session store of go-bsv-middlewares                       *)
(* (pkg/temporary/sessionmanager/session_manager_mock.go): two Go maps,    *)
(* sessions (sessionNonce -> PeerSession) and identityKeyToSessions        *)
(* (peerIdentityKey -> []sessionNonce), guarded by one sync.Mutex.         *)
(*                                                                         *)
(* A Go map is a function whose DOMAIN is the set of keys present; a nil   *)
(* *string is the value Nil; a *PeerSession result is a set holding at     *)
(* most one record ({} is the nil pointer).                                *)
(***************************************************************************)
EXTENDS Integers, Sequences, FiniteSets, TLC

\* ------------------------------------------------------------------ bounds
\* in SpecBest, lastUpdate values are 1..MaxTime
MaxTime == 2
\* in SpecBest, the longest []sessionNonce of the identity key
MaxBestLen == 3
\* longest []sessionNonce an identity key is allowed to reach
MaxLen == 3
\* in SpecConc, the number of goroutines calling the store
NProcs == 2

\* ------------------------------------------------------------- input sets
\* a nil *string
Nil == "nil"
\* the strings used as sessionNonce; "b" is also used as a peerIdentityKey
Nonces == {"a", "b"}
\* the strings used as peerIdentityKey
IdentityKeys == {"b", "k"}
\* the strings passed to GetSession / HasSession
Identifiers == Nonces \cup IdentityKeys

\* the lastUpdate instants: an earlier and a later one
Times == {1, 2}

\* the PeerSession records handed to the store: the fields the store reads
PeerSession ==
    [SessionNonce : Nonces \cup {Nil},
     PeerIdentityKey : IdentityKeys \cup {Nil},
     IsAuthenticated : BOOLEAN,
     LastUpdate : Times]

VARIABLES
    sessions,               \* map[string]PeerSession
    identityKeyToSessions,  \* map[string][]string
    ret,                    \* what the caller has observed: a read's result, a panic
    log,                    \* history: which kind of calls built the store
    mu,                     \* sync.Mutex: 0 when free, else the goroutine holding it
    pc,                     \* per goroutine: where it is in its call
    call,                   \* per goroutine: the call it makes, with its argument
    local,                  \* per goroutine: sessionNonces, exists as it read them
    result,                 \* per goroutine: what its call returned
    lastLock,               \* history: the goroutine that took the mutex last
    flipped,                \* history: the record whose UpdateSession has just
                            \* turned a stored session authenticated
    keyDeriver,             \* MockWallet.keyDeriver
    validNonces,            \* MockWallet.validNonces: the keys of the map
    wret,                   \* the last MockWallet call and what it returned
    created                 \* history: the nonces CreateNonce has returned

seqVars == <<ret, log, flipped>>
concVars == <<mu, pc, call, local, result, lastLock>>
walletVars == <<keyDeriver, validNonces, wret, created>>
vars == <<sessions, identityKeyToSessions, ret, log,
          mu, pc, call, local, result, lastLock, flipped,
          keyDeriver, validNonces, wret, created>>

\* ------------------------------------------------------------ Go helpers
\* m[k] = v
MapPut(m, k, v) == [x \in DOMAIN m \cup {k} |-> IF x = k THEN v ELSE m[x]]
\* delete(m, k)
MapDelete(m, k) == [x \in DOMAIN m \ {k} |-> m[x]]
\* the empty map
EmptyMap == [x \in {} |-> {}]
\* the elements of a slice
Range(s) == {s[i] : i \in DOMAIN s}
\* time.Time.After
After(t, u) == t > u

\* ------------------------------------------------- the handlers' bodies
\* Each is the code between Lock and the deferred Unlock, as a function of
\* the two maps.  A write yields the new maps and whether it panicked.

\* mutant: a record already stored under the nonce is kept
addSessionByNonceKeepsFirst(sess, session) ==
    IF session.SessionNonce # Nil /\ session.SessionNonce \notin DOMAIN sess
    THEN MapPut(sess, session.SessionNonce, session)
    ELSE sess

\* AddSession, lines 29-31: store the record under its nonce
addSessionByNonce(sess, session) ==
    IF session.SessionNonce # Nil
    THEN MapPut(sess, session.SessionNonce, session)
    ELSE sess

\* addSessionByIdentityKey, lines 45 and 50, given what line 41 read
storeSessionNonces(idx, sessionNonces, exists, session) ==
    IF exists
    THEN MapPut(idx, session.PeerIdentityKey,
                Append(sessionNonces, session.SessionNonce))
    ELSE MapPut(idx, session.PeerIdentityKey, <<session.SessionNonce>>)

\* addSessionByIdentityKey, line 41: sessionNonces, exists := m[key]
lookupSessionNonces(idx, key) ==
    IF key \in DOMAIN idx
    THEN [sessionNonces |-> idx[key], exists |-> TRUE]
    ELSE [sessionNonces |-> <<>>, exists |-> FALSE]

\* addSessionByIdentityKey that starts the slice over instead of appending
addSessionByIdentityKeyReplaces(idx, session) ==
    MapPut(idx, session.PeerIdentityKey, <<session.SessionNonce>>)

addSessionByIdentityKey(idx, session) ==
    LET l == lookupSessionNonces(idx, session.PeerIdentityKey)
    IN  storeSessionNonces(idx, l.sessionNonces, l.exists, session)

\* *session.SessionNonce on a nil pointer: a runtime panic (lines 45, 50, 120)
derefNilNonce(session) == session.SessionNonce = Nil

addSession(sess, idx, session) ==
    LET s1 == addSessionByNonce(sess, session)
    IN  IF session.PeerIdentityKey = Nil
        THEN [sessions |-> s1, identityKeyToSessions |-> idx, panicked |-> FALSE]
        ELSE IF derefNilNonce(session)
        THEN [sessions |-> s1, identityKeyToSessions |-> idx, panicked |-> TRUE]
        ELSE [sessions |-> s1,
              identityKeyToSessions |-> addSessionByIdentityKey(idx, session),
              panicked |-> FALSE]

\* mutant: the more recent session wins whatever the authentication
replacesBestByRecency(session, best) ==
    After(session.LastUpdate, best.LastUpdate)

\* mutant: on equal lastUpdate the later handle wins
replacesBestOnTie(session, best) ==
    IF session.IsAuthenticated /\ ~best.IsAuthenticated THEN TRUE
    ELSE /\ session.IsAuthenticated = best.IsAuthenticated
         /\ ~After(best.LastUpdate, session.LastUpdate)

\* getBestSession, lines 91-100: does session replace bestSession?
replacesBest(session, best) ==
    IF session.IsAuthenticated /\ ~best.IsAuthenticated THEN TRUE
    ELSE /\ session.IsAuthenticated = best.IsAuthenticated
         /\ After(session.LastUpdate, best.LastUpdate)

\* the loop of getBestSession from position i on, bestSession so far
RECURSIVE getBestSessionFrom(_, _, _, _)
getBestSessionFrom(sess, sessionNonces, i, bestSession) ==
    IF i > Len(sessionNonces) THEN bestSession
    ELSE LET sessionNonce == sessionNonces[i] IN
         IF sessionNonce \notin DOMAIN sess
         THEN getBestSessionFrom(sess, sessionNonces, i + 1, bestSession)
         ELSE LET session == sess[sessionNonce] IN
              IF bestSession = {}
              THEN getBestSessionFrom(sess, sessionNonces, i + 1, {session})
              ELSE IF replacesBest(session, CHOOSE b \in bestSession : TRUE)
              THEN getBestSessionFrom(sess, sessionNonces, i + 1, {session})
              ELSE getBestSessionFrom(sess, sessionNonces, i + 1, bestSession)

getBestSession(sess, sessionNonces) ==
    getBestSessionFrom(sess, sessionNonces, 1, {})

\* mutant: only the handle index is consulted
getSessionByNonceOnly(sess, idx, identifier) ==
    IF identifier \in DOMAIN sess THEN {sess[identifier]} ELSE {}

\* GetSession that consults the identity index first
getSessionByIdentityFirst(sess, idx, identifier) ==
    IF identifier \in DOMAIN idx THEN getBestSession(sess, idx[identifier])
    ELSE IF identifier \in DOMAIN sess THEN {sess[identifier]}
    ELSE {}

getSession(sess, idx, identifier) ==
    IF identifier \in DOMAIN sess THEN {sess[identifier]}
    ELSE IF identifier \notin DOMAIN idx THEN {}
    ELSE getBestSession(sess, idx[identifier])

\* removeSessionNonce that stops copying at the first occurrence of target
removeSessionNonceTruncates(slice, target) ==
    IF \E i \in 1..Len(slice) : slice[i] = target
    THEN SubSeq(slice, 1, (CHOOSE i \in 1..Len(slice) :
                              /\ slice[i] = target
                              /\ \A j \in 1..(i - 1) : slice[j] # target) - 1)
    ELSE slice

removeSessionNonce(slice, target) ==
    SelectSeq(slice, LAMBDA str : str # target)

\* mutant: the emptied slice is stored instead of the key being deleted
storeUpdatedNoncesKeepsKey(idx, sessionNonces, session) ==
    MapPut(idx, session.PeerIdentityKey,
           removeSessionNonce(sessionNonces, session.SessionNonce))

\* RemoveSession, lines 110-112
removeSessionByNonce(sess, session) ==
    IF session.SessionNonce # Nil
    THEN MapDelete(sess, session.SessionNonce)
    ELSE sess

\* RemoveSession, lines 120-129, given the list line 115 read
storeUpdatedNonces(idx, sessionNonces, session) ==
    LET updatedNonces == removeSessionNonce(sessionNonces, session.SessionNonce)
    IN  IF Len(updatedNonces) = 0
        THEN MapDelete(idx, session.PeerIdentityKey)
        ELSE MapPut(idx, session.PeerIdentityKey, updatedNonces)

removeSession(sess, idx, session) ==
    LET s1 == removeSessionByNonce(sess, session)
        l == lookupSessionNonces(idx, session.PeerIdentityKey)
    IN  IF session.PeerIdentityKey = Nil \/ ~l.exists
        THEN [sessions |-> s1, identityKeyToSessions |-> idx, panicked |-> FALSE]
        ELSE IF derefNilNonce(session)
        THEN [sessions |-> s1, identityKeyToSessions |-> idx, panicked |-> TRUE]
        ELSE [sessions |-> s1,
              identityKeyToSessions |-> storeUpdatedNonces(idx, l.sessionNonces, session),
              panicked |-> FALSE]

\* HasSession that answers whether GetSession finds a session
hasSessionResolved(sess, idx, identifier) ==
    getSession(sess, idx, identifier) # {}

hasSession(sess, idx, identifier) ==
    IF identifier \in DOMAIN sess THEN TRUE
    ELSE IF identifier \notin DOMAIN idx THEN FALSE
    ELSE Len(idx[identifier]) > 0

\* UpdateSession is m.AddSession(session)
\* UpdateSession that files the handle and leaves the stored record alone
updateSessionIndexOnly(sess, idx, session) ==
    [addSession(sess, idx, session) EXCEPT !.sessions = sess]

updateSession(sess, idx, session) == addSession(sess, idx, session)

\* ------------------------------------------------------------- history
\* log records how the store was built, for the claims that speak of a
\* store to which only certain sessions were added:
\*   fresh         nothing was added or removed yet
\*   handleOnly    only sessions with a nonce and no identity key were
\*                 added; last[h] holds the record last added under h
\*   sameIdentity  only sessions with a nonce and the identity key `key`
\*                 were added; added holds them
\*   emptied       the last write was a RemoveSession that removed the only
\*                 handle recorded for the identity key `key`
\*   mixed         anything else
Fresh == [kind |-> "fresh"]
Mixed == [kind |-> "mixed"]

\* RemoveSession(session) finds session's nonce to be the only handle
\* recorded for session's identity key
removesOnlyHandle(idx, session) ==
    /\ session.SessionNonce # Nil
    /\ session.PeerIdentityKey \in DOMAIN idx
    /\ Range(idx[session.PeerIdentityKey]) = {session.SessionNonce}

logRemove(idx, session) ==
    IF removesOnlyHandle(idx, session)
    THEN [kind |-> "emptied", key |-> session.PeerIdentityKey]
    ELSE Mixed

logAdd(l, session) ==
    LET n == session.SessionNonce
        k == session.PeerIdentityKey
    IN  IF n = Nil THEN Mixed
        ELSE IF k = Nil THEN
            IF l.kind = "fresh"
            THEN [kind |-> "handleOnly", last |-> MapPut(EmptyMap, n, session)]
            ELSE IF l.kind = "handleOnly"
            THEN [kind |-> "handleOnly", last |-> MapPut(l.last, n, session)]
            ELSE Mixed
        ELSE
            IF l.kind = "fresh"
            THEN [kind |-> "sameIdentity", key |-> k, added |-> {session}]
            ELSE IF l.kind = "sameIdentity" /\ l.key = k
            THEN [kind |-> "sameIdentity", key |-> k, added |-> l.added \cup {session}]
            ELSE Mixed

\* ------------------------------------------------------------- actions
\* The three writes return nothing: they leave ret at NoValue unless they
\* panic.  A panic that nothing recovers ends the program; and the two reads
\* assign to neither map (lines 54-73, 134-151), so a run is explored as a
\* sequence of writes closed by one observation: every state of the maps
\* reached with reads in between is reached without them.
NoValue == [op |-> "none"]
Panic(op) == [op |-> op, panicked |-> TRUE]

\* the goroutines of SpecConc; Spec and SpecBest make their calls one at a
\* time, each whole under the lock, and leave the goroutines idle
Procs == 1..NProcs
NoCall == [op |-> "none"]
NoLocal == [sessionNonces |-> <<>>, exists |-> FALSE]
Idle ==
    /\ mu = 0
    /\ pc = [p \in Procs |-> "idle"]
    /\ call = [p \in Procs |-> NoCall]
    /\ local = [p \in Procs |-> NoLocal]
    /\ result = [p \in Procs |-> NoValue]
    /\ lastLock = 0

\* the session store is used without a wallet: none is constructed and none
\* of its methods is called
NoWallet ==
    /\ keyDeriver = FALSE
    /\ validNonces = {}
    /\ wret = NoValue
    /\ created = {}

\* NewSessionManager
Init ==
    /\ sessions = EmptyMap
    /\ identityKeyToSessions = EmptyMap
    /\ ret = NoValue
    /\ log = Fresh
    /\ flipped = NoValue
    /\ Idle
    /\ NoWallet

\* the bound on the slices: the append of addSessionByIdentityKey stays
\* within MaxLen
RECURSIVE TotalLen(_, _)
TotalLen(idx, keys) ==
    IF keys = {} THEN 0
    ELSE LET k == CHOOSE x \in keys : TRUE
         IN  Len(idx[k]) + TotalLen(idx, keys \ {k})

WithinMaxLen(session) ==
    session.PeerIdentityKey # Nil
        => TotalLen(identityKeyToSessions, DOMAIN identityKeyToSessions) < MaxLen

\* UpdateSession(session) meets a stored session of the same nonce and the
\* same identity that is not authenticated, and session is authenticated
flipsAuthenticated(sess, session) ==
    /\ session.SessionNonce \in DOMAIN sess
    /\ sess[session.SessionNonce].PeerIdentityKey = session.PeerIdentityKey
    /\ ~sess[session.SessionNonce].IsAuthenticated
    /\ session.IsAuthenticated

AddSession(session) ==
    LET r == addSession(sessions, identityKeyToSessions, session) IN
    /\ ret = NoValue
    /\ WithinMaxLen(session)
    /\ sessions' = r.sessions
    /\ identityKeyToSessions' = r.identityKeyToSessions
    /\ ret' = IF r.panicked THEN Panic("AddSession") ELSE NoValue
    /\ log' = logAdd(log, session)
    /\ flipped' = NoValue
    /\ UNCHANGED <<concVars, walletVars>>

UpdateSession(session) ==
    LET r == updateSession(sessions, identityKeyToSessions, session) IN
    /\ ret = NoValue
    /\ WithinMaxLen(session)
    /\ sessions' = r.sessions
    /\ identityKeyToSessions' = r.identityKeyToSessions
    /\ ret' = IF r.panicked THEN Panic("UpdateSession") ELSE NoValue
    /\ log' = logAdd(log, session)
    /\ flipped' = IF flipsAuthenticated(sessions, session) THEN session ELSE NoValue
    /\ UNCHANGED <<concVars, walletVars>>

RemoveSession(session) ==
    LET r == removeSession(sessions, identityKeyToSessions, session) IN
    /\ ret = NoValue
    /\ sessions' = r.sessions
    /\ identityKeyToSessions' = r.identityKeyToSessions
    /\ ret' = IF r.panicked THEN Panic("RemoveSession") ELSE NoValue
    /\ log' = logRemove(identityKeyToSessions, session)
    /\ flipped' = NoValue
    /\ UNCHANGED <<concVars, walletVars>>

\* GetSession that prunes the handles that do not resolve
GetSessionPrunes(identifier) ==
    /\ ret = NoValue
    /\ ret' = [op |-> "GetSession", identifier |-> identifier,
               session |-> getSession(sessions, identityKeyToSessions, identifier)]
    /\ identityKeyToSessions' =
          [k \in DOMAIN identityKeyToSessions |->
              SelectSeq(identityKeyToSessions[k], LAMBDA h : h \in DOMAIN sessions)]
    /\ UNCHANGED <<sessions, log, flipped>>
    /\ UNCHANGED <<concVars, walletVars>>

GetSession(identifier) ==
    /\ ret = NoValue
    /\ ret' = [op |-> "GetSession", identifier |-> identifier,
               session |-> getSession(sessions, identityKeyToSessions, identifier)]
    /\ UNCHANGED <<sessions, identityKeyToSessions, log, flipped>>
    /\ UNCHANGED <<concVars, walletVars>>

HasSession(identifier) ==
    /\ ret = NoValue
    /\ ret' = [op |-> "HasSession", identifier |-> identifier,
               has |-> hasSession(sessions, identityKeyToSessions, identifier)]
    /\ UNCHANGED <<sessions, identityKeyToSessions, log, flipped>>
    /\ UNCHANGED <<concVars, walletVars>>

Next ==
    \/ \E session \in PeerSession : AddSession(session)
    \/ \E session \in PeerSession : UpdateSession(session)
    \/ \E session \in PeerSession : RemoveSession(session)
    \/ \E identifier \in Identifiers : GetSession(identifier)
    \/ \E identifier \in Identifiers : HasSession(identifier)

Spec == Init /\ [][Next]_vars

\* ------------------------------------------- the selection on its own
\* SpecBest applies GetSession to every store of one identity key whose
\* slice is any sequence (any order, repeats, stale handles) of up to
\* MaxBestLen of three nonces, with any assignment of isAuthenticated and
\* lastUpdate.  Each is a store the writes can build: the slice by
\* AddSession in that order, a stale handle by RemoveSession of a record
\* without identity key, a nonce outside the slice by AddSession without
\* identity key.  The identity key "a" is also a nonce.
BestNonces == {"a", "b", "c"}
BestIdentityKeys == {"a", "k"}
BestIdentifiers == BestNonces \cup BestIdentityKeys
BestSlices == UNION {[1..n -> BestNonces] : n \in 1..MaxBestLen}

InitBest ==
    \E key \in BestIdentityKeys, sessionNonces \in BestSlices,
       present \in SUBSET BestNonces :
      \E f \in [present -> [IsAuthenticated : BOOLEAN, LastUpdate : 1..MaxTime]] :
        /\ sessions =
              [h \in present |->
                 [SessionNonce |-> h,
                  PeerIdentityKey |-> IF h \in Range(sessionNonces) THEN key ELSE Nil,
                  IsAuthenticated |-> f[h].IsAuthenticated,
                  LastUpdate |-> f[h].LastUpdate]]
        /\ identityKeyToSessions = MapPut(EmptyMap, key, sessionNonces)
        /\ ret = NoValue
        /\ log = Mixed
        /\ flipped = NoValue
        /\ Idle
        /\ NoWallet

NextBest == \E identifier \in BestIdentifiers : GetSession(identifier)

SpecBest == InitBest /\ [][NextBest]_vars

\* ------------------------------------------------- concurrent goroutines
\* SpecConc: NProcs goroutines each make one call, statement by statement.
\* The store they start from is new (log = Fresh) or holds one session "a"
\* of identity key "k" that an earlier AddSession stored; log keeps
\* describing that starting store.  A goroutine that panics runs its
\* deferred Unlock; the others are explored on, as when the caller recovers.
ConcSessions ==
    {s \in PeerSession :
        /\ s.PeerIdentityKey = "k" /\ s.LastUpdate = 1
        /\ s.SessionNonce = Nil => ~s.IsAuthenticated}
ConcIdentifiers == {"a", "k"}
ConcCalls ==
    [op : {"AddSession", "UpdateSession", "RemoveSession"}, session : ConcSessions]
    \cup [op : {"GetSession", "HasSession"}, identifier : ConcIdentifiers]
Seed ==
    [SessionNonce |-> "a", PeerIdentityKey |-> "k",
     IsAuthenticated |-> FALSE, LastUpdate |-> 1]

InitConc ==
    /\ Idle
    /\ NoWallet
    /\ ret = NoValue
    /\ flipped = NoValue
    /\ \/ /\ sessions = EmptyMap
          /\ identityKeyToSessions = EmptyMap
          /\ log = Fresh
       \/ LET r == addSession(EmptyMap, EmptyMap, Seed) IN
          /\ sessions = r.sessions
          /\ identityKeyToSessions = r.identityKeyToSessions
          /\ log = logAdd(Fresh, Seed)

\* the first statement of each exported method
Entry(op) ==
    CASE op = "AddSession" -> "AddLock"
      [] op = "UpdateSession" -> "Update"
      [] op = "RemoveSession" -> "RemoveLock"
      [] op = "GetSession" -> "GetLock"
      [] op = "HasSession" -> "HasLock"

\* a goroutine calls a method of the store
Call(p) ==
    /\ pc[p] = "idle"
    /\ \E c \in ConcCalls :
          /\ call' = [call EXCEPT ![p] = c]
          /\ pc' = [pc EXCEPT ![p] = Entry(c.op)]
    /\ UNCHANGED <<sessions, identityKeyToSessions, mu, lastLock, local, result, seqVars, walletVars>>

\* m.mu.Lock(): blocks until the mutex is free
Lock(p, at, next) ==
    /\ pc[p] = at
    /\ mu = 0
    /\ mu' = p
    /\ lastLock' = p
    /\ pc' = [pc EXCEPT ![p] = next]
    /\ UNCHANGED <<sessions, identityKeyToSessions, call, local, result, seqVars, walletVars>>

\* defer m.mu.Unlock(), and the return
Unlock(p) ==
    /\ pc[p] = "Unlock"
    /\ mu' = 0
    /\ pc' = [pc EXCEPT ![p] = "done"]
    /\ local' = [local EXCEPT ![p] = NoLocal]
    /\ UNCHANGED <<sessions, identityKeyToSessions, call, result, lastLock, seqVars, walletVars>>

\* UpdateSession that takes the mutex itself before it calls AddSession
UpdateSessionCallLocks(p) ==
    /\ pc[p] = "Update"
    /\ mu = 0
    /\ mu' = p
    /\ lastLock' = p
    /\ pc' = [pc EXCEPT ![p] = "AddLock"]
    /\ UNCHANGED <<sessions, identityKeyToSessions, call, local, result, seqVars, walletVars>>

\* UpdateSession, line 155: m.AddSession(session)
UpdateSessionCall(p) ==
    /\ pc[p] = "Update"
    /\ pc' = [pc EXCEPT ![p] = "AddLock"]
    /\ UNCHANGED <<sessions, identityKeyToSessions, mu, lastLock, call, local, result, seqVars, walletVars>>

\* mutant: AddSession does not take the mutex
AddSessionLockMissing(p) ==
    /\ pc[p] = "AddLock"
    /\ pc' = [pc EXCEPT ![p] = "AddNonce"]
    /\ UNCHANGED <<sessions, identityKeyToSessions, mu, lastLock, call, local, result, seqVars, walletVars>>

\* AddSession, line 26
AddSessionLock(p) == Lock(p, "AddLock", "AddNonce")

\* AddSession, lines 29-33
AddSessionNonce(p) ==
    /\ pc[p] = "AddNonce"
    /\ sessions' = addSessionByNonce(sessions, call[p].session)
    /\ pc' = [pc EXCEPT ![p] = IF call[p].session.PeerIdentityKey # Nil
                               THEN "AddLookup" ELSE "Unlock"]
    /\ UNCHANGED <<identityKeyToSessions, mu, lastLock, call, local, result, seqVars, walletVars>>

\* addSessionByIdentityKey, line 41
AddSessionLookup(p) ==
    /\ pc[p] = "AddLookup"
    /\ local' = [local EXCEPT ![p] =
                    lookupSessionNonces(identityKeyToSessions,
                                        call[p].session.PeerIdentityKey)]
    /\ pc' = [pc EXCEPT ![p] = "AddStore"]
    /\ UNCHANGED <<sessions, identityKeyToSessions, mu, lastLock, call, result, seqVars, walletVars>>

\* addSessionByIdentityKey, lines 42-50
AddSessionStore(p) ==
    /\ pc[p] = "AddStore"
    /\ IF derefNilNonce(call[p].session)
       THEN /\ result' = [result EXCEPT ![p] = Panic(call[p].op)]
            /\ UNCHANGED identityKeyToSessions
       ELSE /\ identityKeyToSessions' =
                  storeSessionNonces(identityKeyToSessions, local[p].sessionNonces,
                                     local[p].exists, call[p].session)
            /\ UNCHANGED result
    /\ pc' = [pc EXCEPT ![p] = "Unlock"]
    /\ UNCHANGED <<sessions, mu, lastLock, call, local, seqVars, walletVars>>

\* RemoveSession, line 107
RemoveSessionLock(p) == Lock(p, "RemoveLock", "RemoveNonce")

\* RemoveSession, lines 110-114
RemoveSessionNonce(p) ==
    /\ pc[p] = "RemoveNonce"
    /\ sessions' = removeSessionByNonce(sessions, call[p].session)
    /\ pc' = [pc EXCEPT ![p] = IF call[p].session.PeerIdentityKey # Nil
                               THEN "RemoveLookup" ELSE "Unlock"]
    /\ UNCHANGED <<identityKeyToSessions, mu, lastLock, call, local, result, seqVars, walletVars>>

\* RemoveSession, lines 115-118
RemoveSessionLookup(p) ==
    LET l == lookupSessionNonces(identityKeyToSessions,
                                 call[p].session.PeerIdentityKey) IN
    /\ pc[p] = "RemoveLookup"
    /\ local' = [local EXCEPT ![p] = l]
    /\ pc' = [pc EXCEPT ![p] = IF l.exists THEN "RemoveStore" ELSE "Unlock"]
    /\ UNCHANGED <<sessions, identityKeyToSessions, mu, lastLock, call, result, seqVars, walletVars>>

\* RemoveSession, lines 120-129
RemoveSessionStore(p) ==
    /\ pc[p] = "RemoveStore"
    /\ IF derefNilNonce(call[p].session)
       THEN /\ result' = [result EXCEPT ![p] = Panic(call[p].op)]
            /\ UNCHANGED identityKeyToSessions
       ELSE /\ identityKeyToSessions' =
                  storeUpdatedNonces(identityKeyToSessions, local[p].sessionNonces,
                                     call[p].session)
            /\ UNCHANGED result
    /\ pc' = [pc EXCEPT ![p] = "Unlock"]
    /\ UNCHANGED <<sessions, mu, lastLock, call, local, seqVars, walletVars>>

\* mutant: GetSession does not take the mutex
GetSessionLockMissing(p) ==
    /\ pc[p] = "GetLock"
    /\ pc' = [pc EXCEPT ![p] = "GetNonce"]
    /\ UNCHANGED <<sessions, identityKeyToSessions, mu, lastLock, call, local, result, seqVars, walletVars>>

\* GetSession, line 55
GetSessionLock(p) == Lock(p, "GetLock", "GetNonce")

\* GetSession, lines 59-61
GetSessionNonce(p) ==
    LET identifier == call[p].identifier IN
    /\ pc[p] = "GetNonce"
    /\ IF identifier \in DOMAIN sessions
       THEN /\ result' = [result EXCEPT ![p] =
                            [op |-> "GetSession", identifier |-> identifier,
                             session |-> {sessions[identifier]}]]
            /\ pc' = [pc EXCEPT ![p] = "Unlock"]
       ELSE /\ pc' = [pc EXCEPT ![p] = "GetLookup"]
            /\ UNCHANGED result
    /\ UNCHANGED <<sessions, identityKeyToSessions, mu, lastLock, call, local, seqVars, walletVars>>

\* GetSession, lines 64-67
GetSessionLookup(p) ==
    LET identifier == call[p].identifier
        l == lookupSessionNonces(identityKeyToSessions, identifier) IN
    /\ pc[p] = "GetLookup"
    /\ local' = [local EXCEPT ![p] = l]
    /\ IF l.exists
       THEN /\ pc' = [pc EXCEPT ![p] = "GetBest"]
            /\ UNCHANGED result
       ELSE /\ result' = [result EXCEPT ![p] =
                            [op |-> "GetSession", identifier |-> identifier,
                             session |-> {}]]
            /\ pc' = [pc EXCEPT ![p] = "Unlock"]
    /\ UNCHANGED <<sessions, identityKeyToSessions, mu, lastLock, call, seqVars, walletVars>>

\* GetSession, lines 70-72
GetSessionBest(p) ==
    /\ pc[p] = "GetBest"
    /\ result' = [result EXCEPT ![p] =
                    [op |-> "GetSession", identifier |-> call[p].identifier,
                     session |-> getBestSession(sessions, local[p].sessionNonces)]]
    /\ pc' = [pc EXCEPT ![p] = "Unlock"]
    /\ UNCHANGED <<sessions, identityKeyToSessions, mu, lastLock, call, local, seqVars, walletVars>>

\* HasSession, line 135
HasSessionLock(p) == Lock(p, "HasLock", "HasNonce")

\* HasSession, lines 139-142
HasSessionNonce(p) ==
    LET identifier == call[p].identifier IN
    /\ pc[p] = "HasNonce"
    /\ IF identifier \in DOMAIN sessions
       THEN /\ result' = [result EXCEPT ![p] =
                            [op |-> "HasSession", identifier |-> identifier,
                             has |-> TRUE]]
            /\ pc' = [pc EXCEPT ![p] = "Unlock"]
       ELSE /\ pc' = [pc EXCEPT ![p] = "HasLookup"]
            /\ UNCHANGED result
    /\ UNCHANGED <<sessions, identityKeyToSessions, mu, lastLock, call, local, seqVars, walletVars>>

\* HasSession, lines 145-150
HasSessionLookup(p) ==
    LET identifier == call[p].identifier
        l == lookupSessionNonces(identityKeyToSessions, identifier) IN
    /\ pc[p] = "HasLookup"
    /\ result' = [result EXCEPT ![p] =
                    [op |-> "HasSession", identifier |-> identifier,
                     has |-> IF l.exists THEN Len(l.sessionNonces) > 0 ELSE FALSE]]
    /\ pc' = [pc EXCEPT ![p] = "Unlock"]
    /\ UNCHANGED <<sessions, identityKeyToSessions, mu, lastLock, call, local, seqVars, walletVars>>

NextConc ==
    \E p \in Procs :
        \/ Call(p)
        \/ UpdateSessionCall(p)
        \/ AddSessionLock(p)
        \/ AddSessionNonce(p)
        \/ AddSessionLookup(p)
        \/ AddSessionStore(p)
        \/ RemoveSessionLock(p)
        \/ RemoveSessionNonce(p)
        \/ RemoveSessionLookup(p)
        \/ RemoveSessionStore(p)
        \/ GetSessionLock(p)
        \/ GetSessionNonce(p)
        \/ GetSessionLookup(p)
        \/ GetSessionBest(p)
        \/ HasSessionLock(p)
        \/ HasSessionNonce(p)
        \/ HasSessionLookup(p)
        \/ Unlock(p)

SpecConc == InitConc /\ [][NextConc]_vars

\* ------------------------------------------- goroutines, fairly scheduled
\* The statements of a call that has been made.  The Go scheduler runs every
\* runnable goroutine again, and a goroutine blocked in Lock is woken when the
\* mutex is released: a statement that stays enabled is eventually executed.
\* Whether a goroutine makes its call at all is left to the caller.
Run(p) ==
    \/ UpdateSessionCall(p)
    \/ AddSessionLock(p) \/ AddSessionNonce(p)
    \/ AddSessionLookup(p) \/ AddSessionStore(p)
    \/ RemoveSessionLock(p) \/ RemoveSessionNonce(p)
    \/ RemoveSessionLookup(p) \/ RemoveSessionStore(p)
    \/ GetSessionLock(p) \/ GetSessionNonce(p)
    \/ GetSessionLookup(p) \/ GetSessionBest(p)
    \/ HasSessionLock(p) \/ HasSessionNonce(p) \/ HasSessionLookup(p)
    \/ Unlock(p)

\* The calls whose statements differ: a session with a nonce, one without
\* (whose dereference panics under the lock), and the two identifiers.
FairSessions == {s \in ConcSessions : ~s.IsAuthenticated /\ s.SessionNonce # "b"}
FairCalls ==
    [op : {"AddSession", "UpdateSession", "RemoveSession"}, session : FairSessions]
    \cup [op : {"GetSession", "HasSession"}, identifier : ConcIdentifiers]

FairCall(p) ==
    /\ pc[p] = "idle"
    /\ \E c \in FairCalls :
          /\ call' = [call EXCEPT ![p] = c]
          /\ pc' = [pc EXCEPT ![p] = Entry(c.op)]
    /\ UNCHANGED <<sessions, identityKeyToSessions, mu, lastLock, local, result, seqVars, walletVars>>

NextConcFair == \E p \in Procs : FairCall(p) \/ Run(p)

SpecConcFair ==
    /\ InitConc
    /\ [][NextConcFair]_vars
    /\ \A p \in Procs : WF_vars(Run(p))

\* =============================================================== MockWallet
\* src/unnamed/part_000, lines 10-112.  The constants of package mock are
\* kept by name; ctx.Err() is nil, or the error the context was ended with.
CtxErrs == {Nil, "Canceled", "DeadlineExceeded"}
IdentityKeyMock == "IdentityKeyMock"
DerivedKeyMock == "DerivedKeyMock"
MockSignature == "MockSignature"
MockNonce == "MockNonce"
ErrorNoPrivilege == "ErrorNoPrivilege"
ErrorKeyDeriver == "ErrorKeyDeriver"
ErrorMissingParams == "ErrorMissingParams"
ErrorInvalidInput == "ErrorInvalidInput"

\* wallet.GetPublicKeyOptions, the fields GetPublicKey reads
GetPublicKeyOptions ==
    [Privileged : BOOLEAN, IdentityKey : BOOLEAN,
     ProtocolID : {Nil, "protocol"}, KeyID : {"", " ", "1"}]
Data == {<<>>, <<1>>}
KeyIDs == {"", "1"}
Counterparties == {"", "self"}
Signatures == {MockSignature, "forged"}
NonceArgs == {MockNonce, "guessed"}

\* the values the methods return next to an error
NilValue == "nil"
EmptyList == "[]"
EmptyMapValue == "map[]"

Returned(value, err) == [value |-> value, err |-> err]

\* lines 27-52
getPublicKey(deriver, ctxErr, options) ==
    IF ctxErr # Nil THEN Returned("", ctxErr)
    ELSE IF options.Privileged THEN Returned("", ErrorNoPrivilege)
    ELSE IF options.IdentityKey THEN
        IF ~deriver THEN Returned("", ErrorKeyDeriver)
        ELSE Returned(IdentityKeyMock, Nil)
    ELSE IF options.ProtocolID = Nil \/ options.KeyID = "" \/ options.KeyID = " "
        THEN Returned("", ErrorMissingParams)
    ELSE IF ~deriver THEN Returned("", ErrorKeyDeriver)
    ELSE Returned(DerivedKeyMock, Nil)

\* lines 55-65
createSignature(ctxErr, data, keyID, counterparty) ==
    IF ctxErr # Nil THEN Returned(NilValue, ctxErr)
    ELSE IF Len(data) = 0 \/ keyID = "" \/ counterparty = ""
        THEN Returned(NilValue, ErrorInvalidInput)
    ELSE Returned(MockSignature, Nil)

\* lines 68-74
verifySignature(ctxErr, signature) ==
    IF ctxErr # Nil THEN Returned(FALSE, ctxErr)
    ELSE Returned(signature = MockSignature, Nil)

\* CreateNonce that registers the nonce before it looks at the context
createNonceRegistersFirst(nonces, ctxErr) ==
    IF ctxErr # Nil
    THEN [validNonces |-> nonces \cup {MockNonce}, value |-> "", err |-> ctxErr]
    ELSE [validNonces |-> nonces \cup {MockNonce}, value |-> MockNonce, err |-> Nil]

\* lines 77-84
createNonce(nonces, ctxErr) ==
    IF ctxErr # Nil
    THEN [validNonces |-> nonces, value |-> "", err |-> ctxErr]
    ELSE [validNonces |-> nonces \cup {MockNonce}, value |-> MockNonce, err |-> Nil]

\* lines 87-94
verifyNonce(nonces, ctxErr, nonce) ==
    IF ctxErr # Nil THEN Returned(FALSE, ctxErr)
    ELSE Returned(nonce \in nonces, Nil)

\* lines 97-103
listCertificates(ctxErr) ==
    IF ctxErr # Nil THEN Returned(NilValue, ctxErr)
    ELSE Returned(EmptyList, Nil)

\* lines 106-112
proveCertificate(ctxErr) ==
    IF ctxErr # Nil THEN Returned(NilValue, ctxErr)
    ELSE Returned(EmptyMapValue, Nil)

\* the wallet is used without a session store
sessionManagerVars == <<sessions, identityKeyToSessions, seqVars, concVars>>

\* NewMockWallet(enableKeyDeriver), lines 18-24
InitWallet ==
    /\ sessions = EmptyMap
    /\ identityKeyToSessions = EmptyMap
    /\ ret = NoValue
    /\ log = Fresh
    /\ flipped = NoValue
    /\ Idle
    /\ keyDeriver \in BOOLEAN
    /\ validNonces = {}
    /\ wret = NoValue
    /\ created = {}

\* what the caller of a method observes
Observed(op, ctxErr, arg, r) ==
    [op |-> op, ctxErr |-> ctxErr, arg |-> arg, value |-> r.value, err |-> r.err]

GetPublicKey(ctxErr, options) ==
    /\ wret' = Observed("GetPublicKey", ctxErr, options,
                        getPublicKey(keyDeriver, ctxErr, options))
    /\ UNCHANGED <<keyDeriver, validNonces, created, sessionManagerVars>>

CreateSignature(ctxErr, data, keyID, counterparty) ==
    /\ wret' = Observed("CreateSignature", ctxErr, <<data, keyID, counterparty>>,
                        createSignature(ctxErr, data, keyID, counterparty))
    /\ UNCHANGED <<keyDeriver, validNonces, created, sessionManagerVars>>

VerifySignature(ctxErr, signature) ==
    /\ wret' = Observed("VerifySignature", ctxErr, signature,
                        verifySignature(ctxErr, signature))
    /\ UNCHANGED <<keyDeriver, validNonces, created, sessionManagerVars>>

CreateNonce(ctxErr) ==
    LET r == createNonce(validNonces, ctxErr) IN
    /\ validNonces' = r.validNonces
    /\ wret' = Observed("CreateNonce", ctxErr, Nil, r)
    /\ created' = IF r.err = Nil THEN created \cup {r.value} ELSE created
    /\ UNCHANGED <<keyDeriver, sessionManagerVars>>

VerifyNonce(ctxErr, nonce) ==
    /\ wret' = Observed("VerifyNonce", ctxErr, nonce,
                        verifyNonce(validNonces, ctxErr, nonce))
    /\ UNCHANGED <<keyDeriver, validNonces, created, sessionManagerVars>>

ListCertificates(ctxErr) ==
    /\ wret' = Observed("ListCertificates", ctxErr, Nil, listCertificates(ctxErr))
    /\ UNCHANGED <<keyDeriver, validNonces, created, sessionManagerVars>>

ProveCertificate(ctxErr) ==
    /\ wret' = Observed("ProveCertificate", ctxErr, Nil, proveCertificate(ctxErr))
    /\ UNCHANGED <<keyDeriver, validNonces, created, sessionManagerVars>>

NextWallet ==
    \E ctxErr \in CtxErrs :
        \/ \E options \in GetPublicKeyOptions : GetPublicKey(ctxErr, options)
        \/ \E data \in Data, keyID \in KeyIDs, counterparty \in Counterparties :
              CreateSignature(ctxErr, data, keyID, counterparty)
        \/ \E signature \in Signatures : VerifySignature(ctxErr, signature)
        \/ CreateNonce(ctxErr)
        \/ \E nonce \in NonceArgs : VerifyNonce(ctxErr, nonce)
        \/ ListCertificates(ctxErr)
        \/ ProveCertificate(ctxErr)

SpecWallet == InitWallet /\ [][NextWallet]_vars

\* =================================================================== claims

\* the calls that can panic
Writes == {"AddSession", "UpdateSession", "RemoveSession"}

\* C1 Index consistency: in every state reachable by AddSession,
\* UpdateSession and RemoveSession calls, every handle in an identity's
\* handle-set is a key of the handle index.
C1_IndexConsistency ==
    \A k \in DOMAIN identityKeyToSessions :
        Range(identityKeyToSessions[k]) \subseteq DOMAIN sessions

\* C2 Totality: AddSession, UpdateSession and RemoveSession complete without
\* failure for every combination of present and absent sessionNonce and
\* peerIdentityKey.
C2_Totality == ret.op \notin Writes

\* a slice holds no string twice
NoDuplicates(s) == \A i, j \in DOMAIN s : s[i] = s[j] => i = j

\* C3 Idempotence: no identity's handle-set ever contains the same handle
\* more than once (adding the identical record twice is as adding it once).
C3_NoDuplicateHandles ==
    \A k \in DOMAIN identityKeyToSessions :
        NoDuplicates(identityKeyToSessions[k])

\* no identity key maps to an empty handle-set
NoEmptyHandleSet ==
    \A k \in DOMAIN identityKeyToSessions : Len(identityKeyToSessions[k]) > 0

\* C4 as claimed: no identity key maps to an empty handle-set, and after
\* RemoveSession removed the only handle of an identity the key is gone and
\* HasSession(identity) is false.
C4_Original ==
    /\ NoEmptyHandleSet
    /\ log.kind = "emptied" =>
        /\ log.key \notin DOMAIN identityKeyToSessions
        /\ ~hasSession(sessions, identityKeyToSessions, log.key)
        /\ (ret.op = "HasSession" /\ ret.identifier = log.key) => ~ret.has

\* C4 as amended: no identity key maps to an empty handle-set, and after
\* RemoveSession removed the only handle of an identity the key is gone from
\* the identity index and HasSession(identity) is true exactly when the same
\* string is a key of the handle index.
C4_NoDanglingEmptyEntries ==
    /\ NoEmptyHandleSet
    /\ log.kind = "emptied" =>
        /\ log.key \notin DOMAIN identityKeyToSessions
        /\ hasSession(sessions, identityKeyToSessions, log.key)
               = (log.key \in DOMAIN sessions)
        /\ (ret.op = "HasSession" /\ ret.identifier = log.key)
               => ret.has = (log.key \in DOMAIN sessions)

\* RemoveSession removed the only handle of an identity key that is no
\* handle, and HasSession(identity) then answered false
C4_Witness ==
    /\ log.kind = "emptied"
    /\ log.key \notin DOMAIN sessions
    /\ ret.op = "HasSession" /\ ret.identifier = log.key /\ ~ret.has

\* C7 After adding N >= 1 sessions that all carry the same peerIdentityKey,
\* HasSession(identity) is true and GetSession(identity) returns one of
\* those N records: never absence, never another record.
C7_SameIdentityAdds ==
    log.kind = "sameIdentity" =>
        /\ hasSession(sessions, identityKeyToSessions, log.key)
        /\ getSession(sessions, identityKeyToSessions, log.key) # {}
        /\ getSession(sessions, identityKeyToSessions, log.key) \subseteq log.added
        /\ (ret.op = "HasSession" /\ ret.identifier = log.key) => ret.has
        /\ (ret.op = "GetSession" /\ ret.identifier = log.key)
               => ret.session # {} /\ ret.session \subseteq log.added

\* two sessions with different nonces were added under an identity key that
\* is no handle, and GetSession(identity) returned
C7_Witness ==
    /\ log.kind = "sameIdentity"
    /\ Cardinality({s.SessionNonce : s \in log.added}) >= 2
    /\ log.key \notin DOMAIN sessions
    /\ ret.op = "GetSession" /\ ret.identifier = log.key

\* C8 Handle-only sessions: when only sessions with a nonce and no identity
\* key were added, GetSession(h) returns the record last added under h, and
\* GetSession(x) returns absence for every x that is no added handle.
C8_HandleOnly ==
    log.kind = "handleOnly" =>
        /\ \A x \in Identifiers :
              getSession(sessions, identityKeyToSessions, x)
                  = IF x \in DOMAIN log.last THEN {log.last[x]} ELSE {}
        /\ ret.op = "GetSession" =>
              ret.session = IF ret.identifier \in DOMAIN log.last
                            THEN {log.last[ret.identifier]} ELSE {}

\* both nonces were added handle-only and GetSession returned one of them
C8_Witness ==
    /\ log.kind = "handleOnly"
    /\ DOMAIN log.last = Nonces
    /\ ret.op = "GetSession" /\ ret.identifier \in DOMAIN log.last
    /\ ret.session # {}

\* the positions of the slice of identity key k that resolve to a session
Resolvable(k) ==
    {i \in DOMAIN identityKeyToSessions[k] :
        identityKeyToSessions[k][i] \in DOMAIN sessions}
\* the session the i-th handle of identity key k resolves to
SessionAt(k, i) == sessions[identityKeyToSessions[k][i]]
\* GetSession was called with an identity key that is no handle
GotByIdentity ==
    /\ ret.op = "GetSession"
    /\ ret.identifier \notin DOMAIN sessions
    /\ ret.identifier \in DOMAIN identityKeyToSessions

\* C5 Authentication precedence: GetSession with an identity key that is no
\* handle returns an authenticated session whenever a handle of the identity
\* resolves to an authenticated session, whatever the order of the handles
\* and the lastUpdate values.
C5_AuthenticationPrecedence ==
    (/\ GotByIdentity
     /\ \E i \in Resolvable(ret.identifier) :
           SessionAt(ret.identifier, i).IsAuthenticated)
    => /\ ret.session # {}
       /\ \A s \in ret.session : s.IsAuthenticated

\* an unauthenticated session with the later lastUpdate came first in the
\* slice, an authenticated one with the earlier lastUpdate after it, and the
\* authenticated one was returned
C5_Witness ==
    /\ GotByIdentity
    /\ \E i, j \in Resolvable(ret.identifier) :
          /\ i < j
          /\ ~SessionAt(ret.identifier, i).IsAuthenticated
          /\ SessionAt(ret.identifier, j).IsAuthenticated
          /\ SessionAt(ret.identifier, i).LastUpdate
                 > SessionAt(ret.identifier, j).LastUpdate
          /\ ret.session = {SessionAt(ret.identifier, j)}

\* C6 Recency and stable tie-break: among the resolvable sessions of the
\* identity with the authentication status of the returned one, GetSession
\* returns one with the maximal lastUpdate, and of several with that
\* lastUpdate the one whose handle comes first in the handle-set.
C6_RecencyStableTieBreak ==
    (GotByIdentity /\ Resolvable(ret.identifier) # {})
    => /\ ret.session # {}
       /\ \A r \in ret.session :
            LET k == ret.identifier
                same == {i \in Resolvable(k) :
                           SessionAt(k, i).IsAuthenticated = r.IsAuthenticated}
                latest == {i \in same :
                             \A j \in same :
                                SessionAt(k, j).LastUpdate <= SessionAt(k, i).LastUpdate}
            IN  \E i \in latest :
                  /\ \A j \in latest : i <= j
                  /\ r = SessionAt(k, i)

\* three handles resolve to sessions of the returned status, the first is
\* older, the other two share the maximal lastUpdate, and the earlier of
\* the two was returned
C6_Witness ==
    /\ GotByIdentity
    /\ Len(identityKeyToSessions[ret.identifier]) = 3
    /\ Resolvable(ret.identifier) = {1, 2, 3}
    /\ \A i \in 1..3 : SessionAt(ret.identifier, i).IsAuthenticated
    /\ SessionAt(ret.identifier, 1).LastUpdate < SessionAt(ret.identifier, 2).LastUpdate
    /\ SessionAt(ret.identifier, 2).LastUpdate = SessionAt(ret.identifier, 3).LastUpdate
    /\ SessionAt(ret.identifier, 2) # SessionAt(ret.identifier, 3)
    /\ ret.session = {SessionAt(ret.identifier, 2)}

\* every goroutine has returned from its call
AllDone == \A p \in Procs : pc[p] = "done"
\* the goroutines all called AddSession on a new store and have returned
ConcurrentAddsDone ==
    /\ log = Fresh
    /\ AllDone
    /\ \A p \in Procs : call[p].op = "AddSession" /\ call[p].session.SessionNonce # Nil
\* how often handle h occurs in slice s
Occurrences(s, h) == Cardinality({i \in DOMAIN s : s[i] = h})

\* C9 Concurrent adds lose nothing: once N goroutines have returned from
\* concurrent AddSession calls under one identity on a new store, the
\* identity's handle-set holds each handle as often as it was added (exactly
\* once when the handles are distinct), the handle index holds a record
\* added under each handle (the record itself when the handles are
\* distinct), and GetSession(identity) returns one of the added sessions.
C9_ConcurrentAdds ==
    ConcurrentAddsDone =>
        LET added == {call[p].session : p \in Procs}
            k == "k"
        IN  /\ k \in DOMAIN identityKeyToSessions
            /\ Len(identityKeyToSessions[k]) = NProcs
            /\ \A h \in Nonces :
                 Occurrences(identityKeyToSessions[k], h)
                     = Cardinality({p \in Procs : call[p].session.SessionNonce = h})
            /\ DOMAIN sessions = {s.SessionNonce : s \in added}
            /\ \A h \in DOMAIN sessions :
                 sessions[h] \in {s \in added : s.SessionNonce = h}
            /\ getSession(sessions, identityKeyToSessions, k) # {}
            /\ getSession(sessions, identityKeyToSessions, k) \subseteq added

\* the goroutines added sessions with pairwise distinct nonces and returned
C9_Witness ==
    /\ ConcurrentAddsDone
    /\ \A p, q \in Procs :
          p # q => call[p].session.SessionNonce # call[q].session.SessionNonce
    /\ \A p \in Procs :
          Occurrences(identityKeyToSessions["k"], call[p].session.SessionNonce) = 1

\* where a goroutine is between Lock and the deferred Unlock
InsideLock ==
    {"AddNonce", "AddLookup", "AddStore",
     "RemoveNonce", "RemoveLookup", "RemoveStore",
     "GetNonce", "GetLookup", "GetBest", "HasNonce", "HasLookup", "Unlock"}
\* where a write has changed the handle index and not yet the identity index
MidWrite == {"AddLookup", "AddStore", "RemoveLookup", "RemoveStore"}
\* where a read looks at the maps
Reading == {"GetNonce", "GetLookup", "GetBest", "HasNonce", "HasLookup"}

\* C10 Atomic observation: every operation accesses the two indexes only
\* while it holds the store lock, no GetSession or HasSession looks at the
\* maps while a write is between its two updates, and what a read returns is
\* what the whole read yields on the store as it stands when the read
\* returns.
C10_AtomicObservation ==
    /\ \A p \in Procs : pc[p] \in InsideLock => mu = p
    /\ \A w, r \in Procs : pc[w] \in MidWrite => pc[r] \notin Reading
    /\ \A p \in Procs :
         (pc[p] = "Unlock" /\ call[p].op = "GetSession") =>
            result[p].session
                = getSession(sessions, identityKeyToSessions, call[p].identifier)
    /\ \A p \in Procs :
         (pc[p] = "Unlock" /\ call[p].op = "HasSession") =>
            result[p].has
                = hasSession(sessions, identityKeyToSessions, call[p].identifier)

\* a RemoveSession has deleted handle "a" from the handle index and not yet
\* from the handle-set of "k", while a GetSession("k") waits for the lock
C10_Witness ==
    \E w, r \in Procs :
        /\ pc[w] = "RemoveStore"
        /\ "a" \notin DOMAIN sessions
        /\ "a" \in Range(identityKeyToSessions["k"])
        /\ pc[r] = "GetLock" /\ call[r].identifier = "k"

\* the goroutines all called AddSession with records of one nonce, and have
\* returned
SameNonceAddsDone ==
    /\ AllDone
    /\ \A p \in Procs : call[p].op = "AddSession" /\ call[p].session.SessionNonce # Nil
    /\ \A p, q \in Procs :
          call[p].session.SessionNonce = call[q].session.SessionNonce

\* C11 Last-writer-wins per handle: after concurrent AddSession calls with
\* records of the same nonce have returned, GetSession(handle) returns,
\* whole, the record of the call that took the lock last; and the record
\* stored under a handle is always a record passed to some AddSession or
\* UpdateSession call (or the one the starting store held).
C11_LastWriterWins ==
    /\ SameNonceAddsDone =>
          /\ lastLock \in Procs
          /\ \A p \in Procs :
                getSession(sessions, identityKeyToSessions,
                           call[p].session.SessionNonce)
                    = {call[lastLock].session}
    /\ \A h \in DOMAIN sessions :
          \/ log # Fresh /\ sessions[h] = Seed
          \/ \E p \in Procs :
                /\ call[p].op \in {"AddSession", "UpdateSession"}
                /\ call[p].session = sessions[h]

\* the goroutines added different records under one nonce and returned
C11_Witness ==
    /\ SameNonceAddsDone
    /\ \A p, q \in Procs : p # q => call[p].session # call[q].session

\* the authenticated sessions the set of identity key k resolves to
AuthenticatedOf(k) ==
    {sessions[h] : h \in {g \in Range(identityKeyToSessions[k]) \cap DOMAIN sessions :
                              sessions[g].IsAuthenticated}}

\* the GetSession that follows the UpdateSession of flipped returns v:
\* by handle the record flipped itself, by identity an authenticated session
\* of that identity, and flipped itself when no other one is authenticated
UpdatedInPlace(identifier, v) ==
    /\ identifier = flipped.SessionNonce => v = {flipped}
    /\ identifier = flipped.PeerIdentityKey =>
          /\ v \subseteq AuthenticatedOf(identifier)
          /\ v # {}
          /\ AuthenticatedOf(identifier) = {flipped} => v = {flipped}

\* C12 as stated: after UpdateSession(S') turned the stored session of S'
\* authenticated, the next GetSession(handle) returns S' and the next
\* GetSession(identity) is computed from S', which outranks every session of
\* the identity that is not authenticated.
C12_Original ==
    (flipped # NoValue /\ ret.op = "GetSession")
        => UpdatedInPlace(ret.identifier, ret.session)

\* C12 Update-in-place, amended: the same, for GetSession(identity) only when
\* the identity string is not itself a key of the handle index.
C12_UpdateInPlace ==
    (flipped # NoValue /\ ret.op = "GetSession")
        => \/ /\ ret.identifier = flipped.PeerIdentityKey
              /\ ret.identifier # flipped.SessionNonce
              /\ ret.identifier \in DOMAIN sessions
           \/ UpdatedInPlace(ret.identifier, ret.session)

\* GetSession(identity) right after the update returned the updated record
\* although an older session of that identity, not authenticated, is more
\* recent
C12_Witness ==
    /\ flipped # NoValue
    /\ ret.op = "GetSession"
    /\ ret.identifier = flipped.PeerIdentityKey
    /\ ret.identifier \notin DOMAIN sessions
    /\ ret.session = {flipped}
    /\ \E h \in Range(identityKeyToSessions[ret.identifier]) \cap DOMAIN sessions :
          /\ ~sessions[h].IsAuthenticated
          /\ sessions[h].LastUpdate > flipped.LastUpdate

\* the store r a write made of the store (sess, idx) holds the record sess
\* held under every nonce but n, and every handle of every identity key in
\* its place
KeepsOtherSessions(sess, idx, r, n) ==
    /\ \A h \in DOMAIN sess \ {n} :
          /\ h \in DOMAIN r.sessions
          /\ r.sessions[h] = sess[h]
          /\ getSession(r.sessions, r.identityKeyToSessions, h) = {sess[h]}
    /\ \A k \in DOMAIN idx :
          /\ k \in DOMAIN r.identityKeyToSessions
          /\ Len(r.identityKeyToSessions[k]) >= Len(idx[k])
          /\ SubSeq(r.identityKeyToSessions[k], 1, Len(idx[k])) = idx[k]

\* C13 No silent overwrite: in every reachable state where a call can be
\* made, AddSession(S) and UpdateSession(S) leave the record under every
\* handle other than S's nonce unchanged and remove no handle from any
\* identity's handle-set, so GetSession(h) still returns the session stored
\* under every other handle h.
C13_NoSilentOverwrite ==
    ret = NoValue => \A session \in PeerSession :
        /\ KeepsOtherSessions(sessions, identityKeyToSessions,
               addSession(sessions, identityKeyToSessions, session),
               session.SessionNonce)
        /\ KeepsOtherSessions(sessions, identityKeyToSessions,
               updateSession(sessions, identityKeyToSessions, session),
               session.SessionNonce)

\* two sessions with different nonces were added under one identity key, and
\* GetSession(handle) returned one of them
C13_Witness ==
    /\ log.kind = "sameIdentity"
    /\ Cardinality({s.SessionNonce : s \in log.added}) >= 2
    /\ ret.op = "GetSession"
    /\ \E s \in log.added : ret.identifier = s.SessionNonce /\ ret.session = {s}

\* x is an identity key whose handle-set is not empty
HasHandles(x) ==
    x \in DOMAIN identityKeyToSessions /\ identityKeyToSessions[x] # <<>>

\* x is an identity key, no handle, and no handle of its set resolves
OnlyStaleHandles(x) ==
    /\ x \notin DOMAIN sessions
    /\ HasHandles(x)
    /\ Range(identityKeyToSessions[x]) \cap DOMAIN sessions = {}

C15_HandlePrecedence ==
    /\ \A x \in DOMAIN sessions :
          getSession(sessions, identityKeyToSessions, x) = {sessions[x]}
    /\ (ret.op = "GetSession" /\ ret.identifier \in DOMAIN sessions)
          => ret.session = {sessions[ret.identifier]}

\* GetSession returned the record of a handle that is an identity key too,
\* whose best session is another record
C15_Witness ==
    /\ ret.op = "GetSession"
    /\ ret.identifier \in DOMAIN sessions
    /\ HasHandles(ret.identifier)
    /\ getBestSession(sessions, identityKeyToSessions[ret.identifier]) # {}
    /\ getBestSession(sessions, identityKeyToSessions[ret.identifier]) # ret.session

\* the handles of s other than h, in the order they have in s
RECURSIVE WithoutHandle(_, _)
WithoutHandle(s, h) ==
    IF s = <<>> THEN <<>>
    ELSE IF Head(s) = h THEN WithoutHandle(Tail(s), h)
    ELSE <<Head(s)>> \o WithoutHandle(Tail(s), h)

\* the store r that RemoveSession(session) made of (sess, idx) lacks the
\* record under session's nonce and the occurrences of that nonce in the
\* slice of session's identity key, and nothing else
RemovesOnly(sess, idx, r, session) ==
    LET n == session.SessionNonce
        K == session.PeerIdentityKey
    IN  /\ ~r.panicked
        /\ DOMAIN r.sessions = DOMAIN sess \ {n}
        /\ \A h \in DOMAIN r.sessions : r.sessions[h] = sess[h]
        /\ DOMAIN r.identityKeyToSessions \subseteq DOMAIN idx
        /\ \A k \in DOMAIN idx \ {K} :
              /\ k \in DOMAIN r.identityKeyToSessions
              /\ r.identityKeyToSessions[k] = idx[k]
        /\ K \in DOMAIN idx =>
              IF WithoutHandle(idx[K], n) = <<>>
              THEN K \notin DOMAIN r.identityKeyToSessions
              ELSE /\ K \in DOMAIN r.identityKeyToSessions
                   /\ r.identityKeyToSessions[K] = WithoutHandle(idx[K], n)

C17_IdentityReindexing ==
    /\ \A K \in DOMAIN identityKeyToSessions :
          \A h \in Range(identityKeyToSessions[K]) \cap DOMAIN sessions :
              sessions[h].PeerIdentityKey = K
    /\ \A K \in IdentityKeys \ DOMAIN sessions :
          \A s \in getSession(sessions, identityKeyToSessions, K) :
              s.PeerIdentityKey = K
    /\ (ret.op = "GetSession" /\ ret.identifier \notin DOMAIN sessions)
          => \A s \in ret.session : s.PeerIdentityKey = ret.identifier

\* C18 Reads are pure: GetSession and HasSession leave the handle index and
\* the identity index unchanged in every state, stale handles included.
C18_ReadsArePure ==
    [][\A identifier \in Identifiers :
          (GetSession(identifier) \/ HasSession(identifier))
              => UNCHANGED <<sessions, identityKeyToSessions>>]_vars

\* GetSession has returned for an identity key whose handle-set holds a stale
\* handle, and the stale handle is still in the set
C18_Witness ==
    /\ ret.op = "GetSession"
    /\ ret.identifier \in DOMAIN identityKeyToSessions
    /\ ret.identifier \notin DOMAIN sessions
    /\ Range(identityKeyToSessions[ret.identifier]) \ DOMAIN sessions # {}

\* goroutine p is inside a call: it has made it and has not returned
InProgress(p) == pc[p] \notin {"idle", "done"}

\* C19 Deadlock freedom: under fair scheduling every call that was made
\* eventually ends with the mutex released by it; UpdateSession, which
\* calls AddSession, never waits for a mutex it holds itself; and the mutex
\* is free whenever no call is in progress.
C19_DeadlockFreedom ==
    /\ \A p \in Procs : InProgress(p) ~> (pc[p] = "done" /\ mu # p)
    /\ []((\A p \in Procs : ~InProgress(p)) => mu = 0)
    /\ [](\A p \in Procs : (pc[p] \in {"Update", "AddLock"}) => mu # p)

\* two goroutines, one of them calling UpdateSession, both took the mutex
\* and returned, and the mutex is free
C19_Witness ==
    /\ AllDone
    /\ \E p \in Procs : call[p].op = "UpdateSession" /\ lastLock # p
    /\ \E p \in Procs : lastLock = p
    /\ mu = 0

\* what each MockWallet method returns next to an error
ZeroValue(op) ==
    CASE op \in {"GetPublicKey", "CreateNonce"} -> ""
      [] op \in {"VerifySignature", "VerifyNonce"} -> FALSE
      [] op \in {"CreateSignature", "ListCertificates", "ProveCertificate"} -> NilValue

\* C20 Cancellation of the identity capability: every MockWallet method
\* called with a context that is already ended returns the context's error,
\* whatever its other arguments are, and leaves the wallet as it was; so the
\* registered nonces are those successful CreateNonce calls returned, and
\* VerifyNonce reports true only for one of them.
C20_Cancellation ==
    /\ []((wret.op # "none" /\ wret.ctxErr # Nil) =>
             /\ wret.err = wret.ctxErr
             /\ wret.value = ZeroValue(wret.op))
    /\ [][wret'.ctxErr # Nil => UNCHANGED <<keyDeriver, validNonces>>]_vars
    /\ [](validNonces = created)
    /\ []((wret.op = "VerifyNonce" /\ wret.err = Nil /\ wret.value)
             => wret.arg \in created)

\* CreateNonce was called with a cancelled context on a wallet that has
\* registered no nonce, and returned the context's error
C20_Witness ==
    /\ wret.op = "CreateNonce"
    /\ wret.ctxErr = "Canceled"
    /\ wret.err = "Canceled"
    /\ validNonces = {}

====
